---- MODULE Spec2Model ----
(***************************************************************************)
(* Model of HexGrid (src/hexgrid.py): the tile registry, the placement     *)
(* loop of draw and the axial-to-pixel conversion of _draw_tile.           *)
(*                                                                         *)
(* A tile handle is represented by its `id` attribute, the only thing the  *)
(* placement code reads from it.  The svg element is represented by the    *)
(* ordered list of its children: a <symbol> child by its id, a <g> child   *)
(* by the ordered list of its <use> children.                              *)
(*                                                                         *)
(* Lengths are kept exact by a change of unit: x is counted in units of    *)
(* TILEW/2 and y in units of TILEH/4, so that both are integers.           *)
(*                                                                         *)
(* random.choice and random.randint are choices among all the values the   *)
(* call can return, at every call.  Every interior cell then multiplies    *)
(* the documents of a grid by six times the number of interior tiles, so   *)
(* the grids that are drawn are bounded by their number of interior cells  *)
(* (MaxInterior); the classification of the cells, the rotation tables and *)
(* the positions are also evaluated cell by cell on the grids of size up   *)
(* to MaxGeomSize.                                                         *)
(***************************************************************************)
EXTENDS Integers, Sequences, FiniteSets

\* ------------------------------------------------------------ bounds
\* Largest number of interior cells of a grid that is constructed: 1 admits
\* the sizes 0, 1 and 2 (size 3 has 7 interior cells).
MaxInterior == 1
\* Largest size of a grid whose cells are classified, rotated and positioned
\* one by one.
MaxGeomSize == 4
\* Largest number of tiles registered in the three pools together.
MaxTiles == 3
\* Largest number of draw calls made on one grid (SpecRepeat).
MaxDraws == 2

\* Identifiers the caller gives to its tiles (drawing.py names its tiles
\* 'tile1' ... 'tile4', 'edge', 'corner').
Ids == {"tile1", "tile2"}

\* The identifier given to every tile of a grid on which draw is called more
\* than once (SpecRepeat).
RepeatIds == {"tile1"}

VARIABLES
    size,         \* self.size
    tiles,        \* self.tiles: sequence of tile ids
    edgetiles,    \* self.edgetiles
    cornertiles,  \* self.cornertiles
    svg,          \* children of self.svg, in order: <symbol> and <g> elements
    pc,           \* "idle": no call in progress; "draw": inside draw's loops
    q,            \* loop variable q of draw
    r,            \* loop variable r of draw
    outcome,      \* how the last draw call ended: "none" | "returned" | "IndexError"
    calls         \* history: per draw call, which pools were non-empty when it began

vars == <<size, tiles, edgetiles, cornertiles, svg, pc, q, r, outcome, calls>>

\* ------------------------------------------------------------ helpers
Abs(x) == IF x < 0 THEN -x ELSE x

Max2(a, b) == IF a >= b THEN a ELSE b

Max3(a, b, c) == Max2(a, Max2(b, c))

\* Python's a % n for n > 0: the remainder in 0..n-1, also for negative a.
PyMod(a, n) == a % n

\* Python's a // n for n > 0: rounds toward minus infinity.
PyFloorDiv(a, n) == a \div n

\* random._randbelow(n): the values the next output of the generator can
\* take.  The state of the generator is not modelled: every call can return
\* any value below n, whatever the calls before it returned.
RandBelow(n) == 0..(n - 1)

\* random.choice(seq) = seq[_randbelow(len(seq))] (Python indexes from 0):
\* the values the call can return.
Choice(seq) == {seq[i + 1] : i \in RandBelow(Len(seq))}

\* random.randint(a, b) = a + _randbelow(b - a + 1): the values the call can
\* return.
RandInt(a, b) == {a + v : v \in RandBelow(b - a + 1)}

\* ------------------------------------------------------------ draw: loop
\* range(-self.size+1, self.size): first value and last value.
RangeLo(n) == -n + 1

RangeHi(n) == n - 1

\* Variant of Skips: >= in place of >.
SkipsMutant(cq, cr, n) == Abs(cq + cr) >= n - 1

\* if abs(q+r) > self.size-1: continue
Skips(cq, cr, n) == Abs(cq + cr) > n - 1

\* s = -q-r
CubeS(cq, cr) == -cq - cr

\* if max(abs(q), abs(r), abs(s)) == self.size-1:  # On the border
OnBorder(cq, cr, n) == Max3(Abs(cq), Abs(cr), Abs(CubeS(cq, cr))) = n - 1

\* (q==0 or r==0 or s==0): the geometric half of the corner test
HasZero(cq, cr) == cq = 0 \/ cr = 0 \/ CubeS(cq, cr) = 0

\* The pairs (q, r) of the two loops for which the body is not skipped.
LoopCells(n) ==
    {c \in (RangeLo(n)..RangeHi(n)) \X (RangeLo(n)..RangeHi(n)) :
        ~Skips(c[1], c[2], n)}

\* The branch the body takes for the cell (q, r); corner, edge and interior
\* tell whether len(self.cornertiles), len(self.edgetiles) and
\* len(self.tiles) are non-zero.  "none": a border cell for which neither the
\* if nor the elif holds; "raise": random.choice on the empty interior pool.
Branch(cq, cr, n, corner, edge, interior) ==
    IF OnBorder(cq, cr, n)
    THEN IF HasZero(cq, cr) /\ corner THEN "corner"
         ELSE IF edge THEN "edge"
         ELSE "none"
    ELSE IF interior THEN "interior" ELSE "raise"

\* Variant of CornerRotate: the rotations 3 and 2 exchanged.
CornerRotateMutant(cq, cr, n) ==
    LET s == CubeS(cq, cr) IN
    IF cq = 0 /\ s = n - 1 THEN 4
    ELSE IF s = 0 /\ cq = n - 1 THEN 5
    ELSE IF cq = 0 /\ cr = n - 1 THEN 1
    ELSE IF cr = 0 /\ s = n - 1 THEN 2
    ELSE IF s = 0 /\ cr = n - 1 THEN 3
    ELSE 0

\* rotate of the corner branch
CornerRotate(cq, cr, n) ==
    LET s == CubeS(cq, cr) IN
    IF cq = 0 /\ s = n - 1 THEN 4
    ELSE IF s = 0 /\ cq = n - 1 THEN 5
    ELSE IF cq = 0 /\ cr = n - 1 THEN 1
    ELSE IF cr = 0 /\ s = n - 1 THEN 3
    ELSE IF s = 0 /\ cr = n - 1 THEN 2
    ELSE 0

\* Variant of EdgeRotate: the tests of s and of q = -size+1 exchanged.
EdgeRotateMutant(cq, cr, n) ==
    LET s == CubeS(cq, cr) IN
    IF cr = n - 1 THEN 2
    ELSE IF cr = -n + 1 THEN -1
    ELSE IF cq = -n + 1 THEN 3
    ELSE IF s = n - 1 THEN 4
    ELSE IF cq = n - 1 THEN 0
    ELSE 1

\* rotate of the edge branch
EdgeRotate(cq, cr, n) ==
    LET s == CubeS(cq, cr) IN
    IF cr = n - 1 THEN 2
    ELSE IF cr = -n + 1 THEN -1
    ELSE IF s = n - 1 THEN 4
    ELSE IF cq = -n + 1 THEN 3
    ELSE IF cq = n - 1 THEN 0
    ELSE 1

\* ------------------------------------------------------------ _draw_tile
\* col = q + (r - r % 2) // 2
AxialCol(cq, cr) == cq + PyFloorDiv(cr - PyMod(cr, 2), 2)

\* x = col*TILEW + (row%2)*(TILEW/2) - TILEW/2, in units of TILEW/2
PixelX(cq, cr) == 2 * AxialCol(cq, cr) + PyMod(cr, 2) - 1

\* Variant of PixelY: row % 2 in place of row.
PixelYMutant(cq, cr) == 3 * PyMod(cr, 2) - 2

\* y = row*(TILEH*3/4) - TILEH/2, in units of TILEH/4
PixelY(cq, cr) == 3 * cr - 2

\* The <use> element built by _draw_tile.  href, x, y and rotate are its
\* attributes (the transform attribute is rotate*60 degrees about the tile
\* centre and is left out when rotate = 0); q, r and zorder record the
\* arguments of the call and are not attributes of the element.
Use(tile, cq, cr, rotate, zorder) ==
    [href |-> tile, x |-> PixelX(cq, cr), y |-> PixelY(cq, cr),
     rotate |-> rotate, q |-> cq, r |-> cr, zorder |-> zorder]

\* A <symbol> child and a <g> child of the svg element.
SymbolElement(id) == [tag |-> "symbol", id |-> id, uses |-> <<>>]

GroupElement(uses) == [tag |-> "g", id |-> "", uses |-> uses]

\* Variant of FindG: the last <g> child, the one the call in progress added.
FindGMutant(children) ==
    CHOOSE i \in DOMAIN children :
        /\ children[i].tag = "g"
        /\ \A j \in DOMAIN children : children[j].tag = "g" => j <= i

\* group = self.svg.find('g'): index of the first <g> child
FindG(children) ==
    CHOOSE i \in DOMAIN children :
        /\ children[i].tag = "g"
        /\ \A j \in DOMAIN children : children[j].tag = "g" => i <= j

\* Variant of Insert: always appended.
InsertMutant(grp, use, zorder) == Append(grp, use)

\* if zorder == 0: group.insert(0, use)  else: group.append(use)
Insert(grp, use, zorder) ==
    IF zorder = 0 THEN <<use>> \o grp ELSE Append(grp, use)

\* _draw_tile(tile, q, r, rotate, zorder): the children of the svg after the call
draw_tile(children, tile, cq, cr, rotate, zorder) ==
    [children EXCEPT ![FindG(children)].uses =
        Insert(@, Use(tile, cq, cr, rotate, zorder), zorder)]

\* ------------------------------------------------------------ registry
Registered == Len(tiles) + Len(edgetiles) + Len(cornertiles)

\* _add_symbol: self.svg.append(symbol)
add_symbol(id) == svg' = Append(svg, SymbolElement(id))

add_tile(id) ==
    /\ pc = "idle"
    /\ Registered < MaxTiles
    /\ tiles' = Append(tiles, id)
    /\ add_symbol(id)
    /\ UNCHANGED <<size, edgetiles, cornertiles, pc, q, r, outcome, calls>>

add_edge_tile(id) ==
    /\ pc = "idle"
    /\ Registered < MaxTiles
    /\ edgetiles' = Append(edgetiles, id)
    /\ add_symbol(id)
    /\ UNCHANGED <<size, tiles, cornertiles, pc, q, r, outcome, calls>>

add_corner_tile(id) ==
    /\ pc = "idle"
    /\ Registered < MaxTiles
    /\ cornertiles' = Append(cornertiles, id)
    /\ add_symbol(id)
    /\ UNCHANGED <<size, tiles, edgetiles, pc, q, r, outcome, calls>>

\* ------------------------------------------------------------ draw
\* The loop variables after the iteration (q, r): the inner loop moves on,
\* or ends and the outer loop moves on.
Advance ==
    IF r < RangeHi(size)
    THEN q' = q /\ r' = r + 1
    ELSE q' = q + 1 /\ r' = RangeLo(size)

InLoop == pc = "draw" /\ q <= RangeHi(size)

\* draw is called: group = ET.SubElement(self.svg, 'g'), and the loops start.
draw ==
    /\ pc = "idle"
    /\ Len(calls) < MaxDraws
    /\ svg' = Append(svg, GroupElement(<<>>))
    /\ calls' = Append(calls, [interior |-> tiles # <<>>,
                               edge |-> edgetiles # <<>>,
                               corner |-> cornertiles # <<>>])
    /\ pc' = "draw"
    /\ outcome' = "none"
    /\ q' = RangeLo(size)
    /\ r' = RangeLo(size)
    /\ UNCHANGED <<size, tiles, edgetiles, cornertiles>>

\* _repr_svg_ is ET.tostring(self.draw()): the same call.
repr_svg == draw

\* The branch of the iteration (q, r) of the call in progress.
BranchHere ==
    Branch(q, r, size, Len(cornertiles) > 0, Len(edgetiles) > 0, Len(tiles) > 0)

\* if abs(q+r) > self.size-1: continue
draw_skip ==
    /\ InLoop
    /\ Skips(q, r, size)
    /\ Advance
    /\ UNCHANGED <<size, tiles, edgetiles, cornertiles, svg, pc,
                   outcome, calls>>

\* border cell, (q==0 or r==0 or s==0) and len(self.cornertiles)
draw_corner ==
    /\ InLoop
    /\ ~Skips(q, r, size)
    /\ BranchHere = "corner"
    /\ \E tile \in Choice(cornertiles) :
           svg' = draw_tile(svg, tile, q, r, CornerRotate(q, r, size), 0)
    /\ Advance
    /\ UNCHANGED <<size, tiles, edgetiles, cornertiles, pc, outcome, calls>>

\* border cell, corner branch not taken, len(self.edgetiles)
draw_edge ==
    /\ InLoop
    /\ ~Skips(q, r, size)
    /\ BranchHere = "edge"
    /\ \E tile \in Choice(edgetiles) :
           svg' = draw_tile(svg, tile, q, r, EdgeRotate(q, r, size), 1)
    /\ Advance
    /\ UNCHANGED <<size, tiles, edgetiles, cornertiles, pc, outcome, calls>>

\* border cell, neither branch taken: the if/elif has no else, nothing is placed
draw_border_none ==
    /\ InLoop
    /\ ~Skips(q, r, size)
    /\ BranchHere = "none"
    /\ Advance
    /\ UNCHANGED <<size, tiles, edgetiles, cornertiles, svg, pc,
                   outcome, calls>>

\* cell not on the border: random tile, random rotation
draw_interior ==
    /\ InLoop
    /\ ~Skips(q, r, size)
    /\ BranchHere = "interior"
    /\ \E tile \in Choice(tiles) :
           \E rotate \in RandInt(0, 5) :
               svg' = draw_tile(svg, tile, q, r, rotate, 1)
    /\ Advance
    /\ UNCHANGED <<size, tiles, edgetiles, cornertiles, pc, outcome, calls>>

\* cell not on the border, self.tiles empty: random.choice raises IndexError,
\* which leaves draw; the grid keeps what was done so far.
draw_interior_raise ==
    /\ InLoop
    /\ ~Skips(q, r, size)
    /\ BranchHere = "raise"
    /\ pc' = "idle"
    /\ outcome' = "IndexError"
    /\ UNCHANGED <<size, tiles, edgetiles, cornertiles, svg, q, r, calls>>

\* the loops are over: return self.svg
draw_return ==
    /\ pc = "draw"
    /\ q > RangeHi(size)
    /\ pc' = "idle"
    /\ outcome' = "returned"
    /\ UNCHANGED <<size, tiles, edgetiles, cornertiles, svg, q, r, calls>>

\* ------------------------------------------------------------ specification
\* Number of cells of a grid of size n that are not on the border.
InteriorCells(n) ==
    Cardinality({c \in LoopCells(n) : ~OnBorder(c[1], c[2], n)})

\* The sizes handed to the constructor: 0 and every size whose grid has at
\* most MaxInterior interior cells (a grid of size n >= 2 has at least n - 1).
Sizes == {n \in 0..(MaxInterior + 1) : InteriorCells(n) <= MaxInterior}

\* HexGrid(size): empty pools, an svg element without children.
Init ==
    /\ size \in Sizes
    /\ tiles = <<>>
    /\ edgetiles = <<>>
    /\ cornertiles = <<>>
    /\ svg = <<>>
    /\ pc = "idle"
    /\ q = 0
    /\ r = 0
    /\ outcome = "none"
    /\ calls = <<>>

\* The iterations of a draw call in progress.
Iterate ==
    \/ draw_skip
    \/ draw_corner
    \/ draw_edge
    \/ draw_border_none
    \/ draw_interior
    \/ draw_interior_raise
    \/ draw_return

\* A grid on which draw is called at most once.
Next ==
    \/ \E id \in Ids : add_tile(id)
    \/ \E id \in Ids : add_edge_tile(id)
    \/ \E id \in Ids : add_corner_tile(id)
    \/ Iterate
    \/ calls = <<>> /\ draw
    \/ calls = <<>> /\ repr_svg

Spec == Init /\ [][Next]_vars

\* A grid on which draw is called up to MaxDraws times, every tile being
\* given the same identifier.
NextRepeat ==
    \/ \E id \in RepeatIds : add_tile(id)
    \/ \E id \in RepeatIds : add_edge_tile(id)
    \/ \E id \in RepeatIds : add_corner_tile(id)
    \/ Iterate
    \/ draw
    \/ repr_svg

SpecRepeat == Init /\ [][NextRepeat]_vars

\* ------------------------------------------------------------ documents
\* The <g> children of the document in order, each as the list of its <use>
\* children.
IsGroup(e) == e.tag = "g"

GroupsOf(children) ==
    LET gs == SelectSeq(children, IsGroup) IN [k \in DOMAIN gs |-> gs[k].uses]

groups == GroupsOf(svg)

\* The placements of the document in document order: the <use> children of
\* every <g>, group after group.
RECURSIVE Flatten(_)
Flatten(gs) == IF gs = <<>> THEN <<>> ELSE Head(gs) \o Flatten(Tail(gs))

Placements == Flatten(groups)

\* ------------------------------------------------------------ properties
\* The cells of a grid of size n as the specification states them.
Region(n) ==
    {c \in (-(n - 1)..(n - 1)) \X (-(n - 1)..(n - 1)) :
        Abs(c[1]) <= n - 1 /\ Abs(c[2]) <= n - 1 /\ Abs(c[1] + c[2]) <= n - 1}

\* The sizes of the grids whose cells are taken one by one.
GeomSizes == 1..MaxGeomSize

\* Number of placements of P made for cell c.
CountAt(P, c) == Cardinality({i \in DOMAIN P : P[i].q = c[1] /\ P[i].r = c[2]})

\* The draw calls made so far all began with the three pools non-empty.
AllPoolsAtEveryCall ==
    \A k \in DOMAIN calls : calls[k].interior /\ calls[k].edge /\ calls[k].corner

\* A placement made by the edge branch: on the border, appended.
IsEdgePlacement(p) == p.zorder # 0 /\ OnBorder(p.q, p.r, size)

\* A placement made by the corner branch.
IsCornerPlacement(p) == p.zorder = 0

\* On every grid of size 1..MaxGeomSize the loops run the body, unskipped,
\* for exactly the cells of the region, 3*(size-1)*size + 1 of them, and with
\* the three pools non-empty the body takes a branch that places a tile.
EveryCellPlaced ==
    \A n \in GeomSizes :
        /\ LoopCells(n) = Region(n)
        /\ Cardinality(LoopCells(n)) = 3 * (n - 1) * n + 1
        /\ \A c \in LoopCells(n) :
               Branch(c[1], c[2], n, TRUE, TRUE, TRUE)
                   \in {"corner", "edge", "interior"}

\* C1: after one draw call on a fresh grid of size >= 1 whose three pools were
\* non-empty, the call has returned and the document holds exactly one
\* placement for every cell of the region, none for any other coordinate, and
\* 3*(size-1)*size + 1 placements in all; and on every grid of size
\* 1..MaxGeomSize the loop body places a tile for exactly the cells of the
\* region.
C1_OnePlacementPerCell ==
    /\ (pc = "idle" /\ Len(calls) = 1 /\ AllPoolsAtEveryCall /\ size >= 1) =>
           LET P == Placements IN
           /\ outcome = "returned"
           /\ \A c \in Region(size) : CountAt(P, c) = 1
           /\ \A i \in DOMAIN P : <<P[i].q, P[i].r>> \in Region(size)
           /\ Len(P) = 3 * (size - 1) * size + 1
    /\ EveryCellPlaced

\* A draw call with the three pools non-empty has returned on a grid with an
\* interior cell, with a placement for each of its 7 cells, and a grid of 37
\* cells is among those taken cell by cell.
C1_Witness ==
    /\ pc = "idle" /\ Len(calls) = 1 /\ AllPoolsAtEveryCall
    /\ size >= 2
    /\ Len(Placements) = 7
    /\ \E n \in GeomSizes : Cardinality(LoopCells(n)) = 37

\* The edge rotation table as the specification states it.
ClaimedEdgeRotation(cq, cr, n) ==
    CASE cr = n - 1 -> 2
      [] cr # n - 1 /\ cr = -(n - 1) -> 5
      [] cr # n - 1 /\ cr # -(n - 1) /\ CubeS(cq, cr) = n - 1 -> 4
      [] cr # n - 1 /\ cr # -(n - 1) /\ CubeS(cq, cr) # n - 1 /\ cq = -(n - 1) -> 3
      [] cr # n - 1 /\ cr # -(n - 1) /\ CubeS(cq, cr) # n - 1 /\ cq # -(n - 1)
           /\ cq = n - 1 -> 0
      [] OTHER -> 1

\* The same table with the unit the code passes for the row r = -(size-1).
AmendedEdgeRotation(cq, cr, n) ==
    IF cr # n - 1 /\ cr = -(n - 1) THEN -1 ELSE ClaimedEdgeRotation(cq, cr, n)

\* C2 as stated: every placement made with an edge tile has a rotation unit in
\* 0..5, fixed by (q, r, size): the first matching case of r = size-1 -> 2,
\* r = -(size-1) -> 5, s = size-1 -> 4, q = -(size-1) -> 3, q = size-1 -> 0,
\* otherwise 1.
C2_Original ==
    LET P == Placements IN
    \A i \in DOMAIN P :
        LET p == P[i] IN
        IsEdgePlacement(p) =>
            /\ p.rotate \in 0..5
            /\ p.rotate = ClaimedEdgeRotation(p.q, p.r, size)

\* On every grid of size 1..MaxGeomSize, whether the corner pool is empty or
\* not, a cell for which the body takes the edge branch gets the rotation of
\* the amended table.
EdgeTableHolds ==
    \A n \in GeomSizes : \A c \in LoopCells(n) : \A corner \in BOOLEAN :
        Branch(c[1], c[2], n, corner, TRUE, TRUE) = "edge" =>
            /\ EdgeRotate(c[1], c[2], n) \in {-1, 0, 1, 2, 3, 4}
            /\ EdgeRotate(c[1], c[2], n) = AmendedEdgeRotation(c[1], c[2], n)
            /\ EdgeRotate(c[1], c[2], n) = 1 => CubeS(c[1], c[2]) = -(n - 1)

\* C2 amended: every placement made with an edge tile has a rotation unit in
\* {-1,0,1,2,3,4}, fixed by (q, r, size) whatever the generator returns: the
\* first matching case of r = size-1 -> 2, r = -(size-1) -> -1 (the same angle
\* as 5), s = size-1 -> 4, q = -(size-1) -> 3, q = size-1 -> 0, otherwise 1,
\* and in the last case s = -(size-1); the same holds of every cell of the
\* grids of size 1..MaxGeomSize for which the body takes the edge branch.
C2_EdgeRotation ==
    /\ LET P == Placements IN
       \A i \in DOMAIN P :
           LET p == P[i] IN
           IsEdgePlacement(p) =>
               /\ p.rotate \in {-1, 0, 1, 2, 3, 4}
               /\ p.rotate = AmendedEdgeRotation(p.q, p.r, size)
               /\ p.rotate = 1 => CubeS(p.q, p.r) = -(size - 1)
    /\ EdgeTableHolds

\* A draw call has returned with an edge placement of each of the rotations
\* that a grid of size 2 has (-1, 0, 2 and 4), and on some grid taken cell by
\* cell the edge branch, all pools non-empty, gives each of the six
\* rotations.
C2_Witness ==
    /\ pc = "idle" /\ outcome = "returned" /\ size >= 2
    /\ LET P == Placements IN
       \A u \in {-1, 0, 2, 4} :
           \E i \in DOMAIN P : IsEdgePlacement(P[i]) /\ P[i].rotate = u
    /\ \E n \in GeomSizes :
           \A u \in {-1, 0, 1, 2, 3, 4} :
               \E c \in LoopCells(n) :
                   /\ Branch(c[1], c[2], n, TRUE, TRUE, TRUE) = "edge"
                   /\ EdgeRotate(c[1], c[2], n) = u

\* The six corners of a grid of size n as the specification states them: one
\* of q, r, s is 0 and the other two are +(n-1) and -(n-1).
SixCorners(n) ==
    {c \in (-(n - 1)..(n - 1)) \X (-(n - 1)..(n - 1)) :
        LET s == -c[1] - c[2] IN
        \/ c[1] = 0 /\ {c[2], s} = {n - 1, -(n - 1)}
        \/ c[2] = 0 /\ {c[1], s} = {n - 1, -(n - 1)}
        \/ s = 0 /\ {c[1], c[2]} = {n - 1, -(n - 1)}}

\* The corner rotation table as the specification states it.
ClaimedCornerRotation(cq, cr, n) ==
    LET s == -cq - cr IN
    CASE cq = 0 /\ s = n - 1 -> 4
      [] s = 0 /\ cq = n - 1 -> 5
      [] cq = 0 /\ cr = n - 1 -> 1
      [] cr = 0 /\ s = n - 1 -> 3
      [] s = 0 /\ cr = n - 1 -> 2
      [] OTHER -> 0

CornerCellsPlaced ==
    LET P == Placements IN
    {<<P[i].q, P[i].r>> : i \in {j \in DOMAIN P : IsCornerPlacement(P[j])}}

\* On every grid of size 2..MaxGeomSize, whether the edge pool is empty or
\* not, the cells for which the body takes the corner branch when the corner
\* pool is non-empty are the six corners, with the rotations of the table.
CornerTableHolds ==
    \A n \in GeomSizes \ {1} : \A edge \in BOOLEAN :
        LET corners == {c \in LoopCells(n) :
                           Branch(c[1], c[2], n, TRUE, edge, TRUE) = "corner"}
        IN /\ corners = SixCorners(n)
           /\ Cardinality(corners) = 6
           /\ \A c \in corners :
                  CornerRotate(c[1], c[2], n) = ClaimedCornerRotation(c[1], c[2], n)

\* C3: for size >= 2, a placement made with a corner tile is at one of the six
\* corners and has the rotation of the table ((q=0,s=size-1) -> 4;
\* (s=0,q=size-1) -> 5; (q=0,r=size-1) -> 1; (r=0,s=size-1) -> 3;
\* (s=0,r=size-1) -> 2; (r=0,q=size-1) -> 0), and when a draw call that began
\* with a non-empty corner pool has returned, the cells placed with a corner
\* tile are exactly the six corners; the same holds of the cells of the
\* grids of size 2..MaxGeomSize for which the body takes the corner branch.
C3_CornerCells ==
    /\ size >= 2 =>
           LET P == Placements
               placed == CornerCellsPlaced
           IN
           /\ \A i \in DOMAIN P :
                  LET p == P[i] IN
                  IsCornerPlacement(p) =>
                      /\ <<p.q, p.r>> \in SixCorners(size)
                      /\ p.rotate = ClaimedCornerRotation(p.q, p.r, size)
                      /\ p.rotate = 0 => (p.r = 0 /\ p.q = size - 1)
           /\ (pc = "idle" /\ outcome = "returned" /\ calls[Len(calls)].corner) =>
                  /\ placed = SixCorners(size)
                  /\ Cardinality(placed) = 6
    /\ CornerTableHolds

\* A draw call that began with a non-empty corner pool has returned with six
\* corner placements of six rotations, and a grid with border cells that are
\* not corners is among those taken cell by cell.
C3_Witness ==
    /\ size >= 2
    /\ \E n \in GeomSizes : \E c \in LoopCells(n) :
           OnBorder(c[1], c[2], n) /\ c \notin SixCorners(n)
    /\ pc = "idle" /\ outcome = "returned" /\ calls[Len(calls)].corner
    /\ Cardinality(CornerCellsPlaced) = 6
    /\ LET P == Placements IN
       \A u \in 0..5 :
           \E i \in DOMAIN P : IsCornerPlacement(P[i]) /\ P[i].rotate = u

\* Every corner placement of P is before every other placement of P: no
\* placement that is not a corner placement is directly followed by one.
CornersFirst(P) ==
    \A i \in 1..(Len(P) - 1) :
        ~(~IsCornerPlacement(P[i]) /\ IsCornerPlacement(P[i + 1]))

\* One step changes the list of placements from P to P2 only by putting one
\* new placement at the front (a placement for a corner cell, made while the
\* corner pool is non-empty) or at the back (any other placement).
PlacedInOrder(P, P2, cornerPool) ==
    \/ P2 = P
    \/ /\ Len(P2) = Len(P) + 1
       /\ LET atFront == Tail(P2) = P
              p == IF atFront THEN P2[1] ELSE P2[Len(P2)]
              corner == OnBorder(p.q, p.r, size) /\ HasZero(p.q, p.r) /\ cornerPool
          IN /\ IsCornerPlacement(p) <=> corner
             /\ IF corner THEN atFront ELSE SubSeq(P2, 1, Len(P)) = P

\* C4: every step of a draw call leaves the placements already made as they
\* are and puts a new corner placement at the front and any other new
\* placement at the back, and after every step every corner placement is
\* before every edge and interior placement.
C4_CornersBeneath ==
    [][LET P == Flatten(GroupsOf(svg))
           P2 == Flatten(GroupsOf(svg'))
       IN svg' # svg =>
              /\ PlacedInOrder(P, P2, cornertiles # <<>>)
              /\ CornersFirst(P2)]_vars

\* A corner placement sits in front of an edge placement whose cell the loop
\* visited earlier.
C4_Witness ==
    LET P == Placements IN
    \E i, j \in DOMAIN P :
        /\ i < j
        /\ IsCornerPlacement(P[i])
        /\ IsEdgePlacement(P[j])
        /\ \/ P[j].q < P[i].q
           \/ P[j].q = P[i].q /\ P[j].r < P[i].r

\* C5 as stated: after one draw call on a grid of size >= 1 with a non-empty
\* interior pool, whatever the edge and corner pools hold, the call has
\* returned and every cell has exactly one placement, and a border cell to
\* which neither the corner nor the edge branch applies has a tile of the
\* interior pool.
C5_EmptyPoolsLoseNoCell ==
    (pc = "idle" /\ Len(calls) = 1 /\ calls[1].interior /\ size >= 1) =>
        LET P == Placements IN
        /\ outcome = "returned"
        /\ \A c \in Region(size) : CountAt(P, c) = 1
        /\ \A i \in DOMAIN P :
               LET p == P[i] IN
               (~IsCornerPlacement(p) /\ ~calls[1].edge) =>
                   \E k \in DOMAIN tiles : tiles[k] = p.href

\* On every grid of size 1..MaxGeomSize the positions of the cells are the
\* ones the specification states, and no two cells have the same one.
PositionsDistinct ==
    \A n \in GeomSizes :
        /\ \A c \in LoopCells(n) :
               LET rm == IF c[2] % 2 = 0 THEN 0 ELSE 1
                   col == c[1] + (c[2] - rm) \div 2
               IN /\ PixelX(c[1], c[2]) = 2 * col + rm - 1
                  /\ PixelY(c[1], c[2]) = 3 * c[2] - 2
        /\ Cardinality({<<PixelX(c[1], c[2]), PixelY(c[1], c[2])>> :
                            c \in LoopCells(n)})
             = Cardinality(LoopCells(n))

\* C6: the position of a placement is the one the specification states,
\* x = 2*col + (r mod 2) - 1 in units of W/2 with
\* col = q + floor((r - (r mod 2)) / 2), and y = 3*r - 2 in units of H/4, and
\* placements of the document made for distinct cells have distinct (x, y):
\* the document holds as many distinct positions as distinct cells; the same
\* holds of all the cells of every grid of size 1..MaxGeomSize.
C6_PixelInjective ==
    /\ LET P == Placements IN
       /\ \A i \in DOMAIN P :
              LET a == P[i]
                  rm == IF a.r % 2 = 0 THEN 0 ELSE 1
                  col == a.q + (a.r - rm) \div 2
              IN /\ a.x = 2 * col + rm - 1
                 /\ a.y = 3 * a.r - 2
       /\ Cardinality({<<P[i].x, P[i].y>> : i \in DOMAIN P})
            = Cardinality({<<P[i].q, P[i].r>> : i \in DOMAIN P})
    /\ PositionsDistinct

\* A draw call has returned with a placement for every cell of a grid with
\* rows of both parities, one of them an odd negative row, and a grid with
\* the rows -3..3 is among those taken cell by cell.
C6_Witness ==
    /\ pc = "idle" /\ outcome = "returned" /\ size >= 2
    /\ LET P == Placements IN
       /\ \A c \in Region(size) : CountAt(P, c) >= 1
       /\ \E i \in DOMAIN P : P[i].r < 0 /\ P[i].r % 2 = 1
    /\ \E n \in GeomSizes : \E c \in LoopCells(n) : c[2] = -3

\* C7 as stated: a draw call on a grid of size >= 2 that began with an empty
\* interior pool ends in an error, and the document then holds no placement.
C7_NoPartialDocument ==
    (pc = "idle" /\ Len(calls) >= 1 /\ ~calls[Len(calls)].interior /\ size >= 2) =>
        /\ outcome = "IndexError"
        /\ Placements = <<>>

\* C8 as stated: no two registered tiles share an identifier.
C8_UniqueIdentifiers ==
    LET all == tiles \o edgetiles \o cornertiles IN
    \A i, j \in DOMAIN all : i # j => all[i] # all[j]

\* C9 as stated: on a grid of size < 1 no draw call returns normally.
C9_SizeBelowOneRefused ==
    size < 1 => ~(pc = "idle" /\ outcome = "returned")

\* C10: after n >= 1 draw calls on a grid of size >= 1, each begun with the
\* three pools non-empty, the document holds n groups, the first holds exactly
\* n placements for every cell of the grid and nothing else, and every other
\* group is empty.
C10_AllInFirstGroup ==
    (pc = "idle" /\ Len(calls) >= 1 /\ AllPoolsAtEveryCall /\ size >= 1) =>
        LET gs == groups IN
        /\ outcome = "returned"
        /\ Len(gs) = Len(calls)
        /\ \A c \in Region(size) : CountAt(gs[1], c) = Len(calls)
        /\ Len(gs[1]) = Len(calls) * (3 * (size - 1) * size + 1)
        /\ \A k \in 2..Len(gs) : gs[k] = <<>>

C10_Witness ==
    /\ pc = "idle" /\ Len(calls) >= 2 /\ AllPoolsAtEveryCall /\ size >= 2
    /\ Len(groups) = Len(calls)
    /\ Len(groups[1]) = Len(calls) * (3 * (size - 1) * size + 1)
    /\ groups[Len(groups)] = <<>>

====
